---- MODULE Spec2Model ----
(***************************************************************************)
(* A model of freqtrade's hyperopt scheduling engine                       *)
(* (src/freqtrade/optimize/hyperopt.py): the ask/tell generator, the      *)
(* immediate-result callback backend, the frame loop of Hyperopt.start,   *)
(* the best-loss logger and the trial checkpoint.                          *)
(*                                                                         *)
(* Floats (losses) are modelled by integers; only their order matters to  *)
(* the code modelled here.  A point returned by Optimizer.ask is modelled *)
(* by its ordinal (the k-th call of ask returns point k).  A TrialResult  *)
(* is [loss, asked]: 'params' and 'result' are functions of the point and *)
(* of the backtest and are carried by no decision of the code.            *)
(***************************************************************************)
EXTENDS Integers, Sequences, FiniteSets, TLC

(***************************************************************************)
(* Program constants                                                       *)
(***************************************************************************)
MAX_LOSS == 100000

EVALS_FRAME == 100

INITIAL_BEST_LOSS == 100

(***************************************************************************)
(* Bounds of the model                                                     *)
(***************************************************************************)
\* largest total_tries of the task-level specification Spec
MaxTries == 4

\* multiprocessing.cpu_count() values tried (n_jobs); joblib's default
\* pre_dispatch is '2 * n_jobs'
CpuCounts == {2}

\* losses a backtest may produce in Spec
LossVals == {40, 50, MAX_LOSS}

(***************************************************************************)
(* Sequence helpers                                                        *)
(***************************************************************************)
Range(s) == {s[i] : i \in DOMAIN s}

Last(s) == s[Len(s)]

\* [v[field] for v in s]
Column(s, field) == [i \in DOMAIN s |-> s[i][field]]

(***************************************************************************)
(* The checkpoint file.  joblib.dump pickles the list of trial dicts;     *)
(* here the stream is a length header followed by the fields of each      *)
(* record in order.  A file is [exists, bytes]; os.path.getsize is        *)
(* Len(bytes).                                                             *)
(***************************************************************************)
dump(trials) ==
    <<Len(trials)>> \o
    [k \in 1..(2 * Len(trials)) |->
        IF k % 2 = 1 THEN trials[(k + 1) \div 2].loss ELSE trials[k \div 2].asked]

\* the inverse reading: the header gives the number of records that follow
load(bytes) ==
    [i \in 1..bytes[1] |-> [loss |-> bytes[2 * i], asked |-> bytes[2 * i + 1]]]

NoFile == [exists |-> FALSE, bytes |-> <<>>]

EmptyFile == [exists |-> TRUE, bytes |-> <<>>]

\* save_trials: dump only a non-empty store
save_trials(trials, file) ==
    IF trials # <<>> THEN [exists |-> TRUE, bytes |-> dump(trials)] ELSE file

\* the file left in place after the load
read_trials_keep_file(file) ==
    IF ~file.exists \/ file.bytes = <<>>
    THEN [trials |-> <<>>, file |-> file, raised |-> TRUE]
    ELSE [trials |-> load(file.bytes), file |-> file, raised |-> FALSE]

\* read_trials: load, then os.remove; load raises on a missing file and on an
\* empty stream, and then nothing is removed
read_trials(file) ==
    IF ~file.exists \/ file.bytes = <<>>
    THEN [trials |-> <<>>, file |-> file, raised |-> TRUE]
    ELSE [trials |-> load(file.bytes), file |-> NoFile, raised |-> FALSE]

\* the size of the file not looked at
load_previous_results_unsized(trials, file) ==
    IF file.exists
    THEN read_trials(file)
    ELSE [trials |-> trials, file |-> file, raised |-> FALSE]

\* load_previous_results: only an existing file of size > 0 is read
load_previous_results(trials, file) ==
    IF file.exists /\ Len(file.bytes) > 0
    THEN read_trials(file)
    ELSE [trials |-> trials, file |-> file, raised |-> FALSE]

(***************************************************************************)
(* log_trials_result: sorted(self.trials, key=itemgetter('loss'))[0].     *)
(* sorted is stable: the elements come out by increasing key, those of    *)
(* equal key in their order in the list.                                   *)
(***************************************************************************)
\* the greatest key first
before_in_sorted_desc(a, b) == a > b

before_in_sorted(a, b) == a < b

RECURSIVE sorted_keys(_)
sorted_keys(keys) ==
    IF keys = {} THEN <<>>
    ELSE LET k == CHOOSE x \in keys : \A y \in keys : x = y \/ before_in_sorted(x, y)
         IN  <<k>> \o sorted_keys(keys \ {k})

RECURSIVE concat_buckets(_, _)
concat_buckets(trials, keys) ==
    IF keys = <<>> THEN <<>>
    ELSE SelectSeq(trials, LAMBDA v : v.loss = Head(keys))
         \o concat_buckets(trials, Tail(keys))

sorted_by_loss(trials) ==
    concat_buckets(trials, sorted_keys(Range(Column(trials, "loss"))))

\* results[0] of the sorted list; only evaluated on a non-empty store
best_of(trials) == sorted_by_loss(trials)[1]

(***************************************************************************)
(* log_results: the loop over the frame's results.  Returns the new       *)
(* current_best_loss and the notifications printed, each                   *)
(* [current, loss, asked]: the index and the loss of the line, and the    *)
(* trial whose summary v['result'] the line shows, named by its point.    *)
(***************************************************************************)
\* the index as enumerate gives it
current_of_zero_based(frame_start, i) == frame_start + i

\* current = frame_start + i + 1, i being the index enumerate gives
current_of(frame_start, i) == frame_start + i + 1

\* a loss equal to the best counted as better
better_or_equal(loss, best) == loss <= best

better(loss, best) == loss < best

RECURSIVE log_results_from(_, _, _, _)
log_results_from(f, i, frame_start, best) ==
    IF i > Len(f) THEN [best |-> best, notes |-> <<>>]
    ELSE IF better(f[i].loss, best)
         THEN LET r == log_results_from(f, i + 1, frame_start, f[i].loss)
              IN  [best |-> r.best,
                   notes |-> <<[current |-> current_of(frame_start, i - 1),
                                loss |-> f[i].loss,
                                asked |-> f[i].asked]>> \o r.notes]
         ELSE log_results_from(f, i + 1, frame_start, best)

\* every frame compared with the initial value, not with the best so far
log_results_forgetting(f, frame_start, best) ==
    log_results_from(f, 1, frame_start, INITIAL_BEST_LOSS)

log_results(f, frame_start, best) == log_results_from(f, 1, frame_start, best)

(***************************************************************************)
(* Frame arithmetic of start(): Python's // and % round towards minus     *)
(* infinity, as \div and % do.                                             *)
(***************************************************************************)
frames_of(total) == (total - 1) \div EVALS_FRAME

\* the remainder taken of total_tries itself
last_frame_len_off_by_one(total) == total % EVALS_FRAME

last_frame_len_of(total) == (total - 1) % EVALS_FRAME

frame_len_of(f, total) ==
    IF f = frames_of(total) THEN last_frame_len_of(total) + 1 ELSE EVALS_FRAME

frame_start_of(f) == f * EVALS_FRAME

(***************************************************************************)
(* The optimizer (skopt.Optimizer, a black box): asked is the number of   *)
(* points ask has returned, told the (point, loss) pairs tell received.   *)
(***************************************************************************)
NewOptimizer == [asked |-> 0, told |-> {}, n_told |-> 0]

opt_ask(o) == [o EXCEPT !.asked = @ + 1]

opt_tell(o, points, losses) ==
    [o EXCEPT !.told = @ \cup {<<points[i], losses[i]>> : i \in DOMAIN points},
              !.n_told = @ + Len(points)]

\* opt_generator's flush statement: functools.partial(self.opt.tell, (...))
\* builds a callable bound to the arguments and drops it; tell is not called.
flush_statement(o, points, losses) == o

\* the buffer kept after the flush
cleared_kept(buffer) == buffer

\* opt_generator: self.f_val = []
cleared(buffer) == <<>>

\* the batch appended twice
parallel_callback_twice(buffer, batch) == buffer \o batch \o batch

\* parallel_callback: self.f_val.extend(f_val)
parallel_callback(buffer, batch) == buffer \o batch

\* the store replaced by the frame's results
append_trials_replacing(store, results_of_frame) == results_of_frame

\* start(): self.trials += f_val
append_trials(store, results_of_frame) == store \o results_of_frame

(***************************************************************************)
(* State of one run of Hyperopt.start                                       *)
(***************************************************************************)
VARIABLES
    pc,                \* position of the controlling thread in start()
    total_tries,       \* self.total_tries (config 'epochs')
    n_jobs,            \* cpus = multiprocessing.cpu_count()
    objective,         \* the losses the backtests of a frame-level run produce
    trials_file,       \* the checkpoint file self.trials_file
    trials,            \* self.trials
    f_val,             \* self.f_val, the pending result buffer
    current_best_loss, \* self.current_best_loss
    opt,               \* self.opt
    frame,             \* the loop variable of start()
    jobs,              \* tasks dispatched in the running frame: [asked, n, done, loss]
    iterating,         \* Parallel._original_iterator is not None
    main_pulled,       \* items the controlling thread took through the pre_dispatch islice
    gen,               \* opt_generator being advanced: [owner, pc, points, losses]
    cb,                \* the backend thread running completion callbacks: [pc, res]
    results,           \* the local f_val of start(): what run_optimizer_parallel returned
    notes,             \* best-result lines printed by log_results
    best_result,       \* what log_trials_result reported
    interrupted,       \* a KeyboardInterrupt was caught by start()
    completed,         \* history: results of evaluations completed in this run
    passed,            \* history: [n, points] handed to the flush statement
    removed,           \* history: points of results dropped from the buffer by the clear
    frame_lens,        \* history: the frame_len of every frame begun
    preloaded,         \* history: self.trials as start() loaded it from the checkpoint
    saved,             \* history: self.trials as it was when save_trials was last called
    worker             \* the Hyperopt object of a worker process and what it did

vars == <<pc, total_tries, n_jobs, objective, trials_file, trials, f_val,
          current_best_loss, opt, frame, jobs, iterating, main_pulled, gen, cb,
          results, notes, best_result, interrupted, completed, passed, removed,
          frame_lens, preloaded, saved, worker>>

\* variables of the worker pool and the generator
poolvars == <<jobs, iterating, main_pulled, gen, cb>>

\* history variables
histvars == <<completed, passed, removed, frame_lens, preloaded>>

\* variables of the store and worker specifications
sidevars == <<saved, worker>>

NoResult == [loss |-> 0, asked |-> 0]

NoWorker == <<>>

IdleGen == [owner |-> "none", pc |-> "test", points |-> <<>>, losses |-> <<>>]

IdleCb == [pc |-> "idle", res |-> <<>>]

\* checkpoints a previous run may have left behind
PriorFiles ==
    {NoFile, EmptyFile,
     [exists |-> TRUE, bytes |-> dump(<<[loss |-> 50, asked |-> 901]>>)],
     [exists |-> TRUE, bytes |-> dump(<<[loss |-> MAX_LOSS, asked |-> 901],
                                        [loss |-> 40, asked |-> 902]>>)]}

\* Hyperopt.__init__
Constructed ==
    /\ trials = <<>>
    /\ f_val = <<>>
    /\ current_best_loss = INITIAL_BEST_LOSS
    /\ opt = NewOptimizer
    /\ frame = 0
    /\ jobs = <<>>
    /\ iterating = FALSE
    /\ main_pulled = 0
    /\ gen = IdleGen
    /\ cb = IdleCb
    /\ results = <<>>
    /\ notes = <<>>
    /\ best_result = NoResult
    /\ interrupted = FALSE
    /\ completed = {}
    /\ passed = [n |-> 0, points |-> {}]
    /\ removed = {}
    /\ frame_lens = <<>>
    /\ preloaded = <<>>
    /\ saved = <<>>
    /\ worker = NoWorker

Init ==
    /\ pc = "start"
    /\ Constructed
    /\ total_tries \in 0..MaxTries
    /\ n_jobs \in CpuCounts
    /\ objective = <<>>
    /\ trials_file \in PriorFiles

pre_dispatch == 2 * n_jobs

(***************************************************************************)
(* start(), up to the frame loop: load_previous_results, get_optimizer     *)
(***************************************************************************)
Start ==
    /\ pc = "start"
    /\ LET r == load_previous_results(trials, trials_file)
       IN  /\ trials' = r.trials
           /\ trials_file' = r.file
           /\ pc' = IF r.raised THEN "crashed" ELSE "loop"
           /\ preloaded' = r.trials
    /\ opt' = NewOptimizer
    /\ frame' = 0
    /\ UNCHANGED <<total_tries, n_jobs, objective, f_val, current_best_loss,
                   results, notes, best_result, interrupted>>
    /\ UNCHANGED poolvars
    /\ UNCHANGED <<completed, passed, removed, frame_lens>>
    /\ UNCHANGED sidevars

\* for frame in range(frames + 1): the next frame begins; Parallel.__call__
\* takes iter(zip(self.opt_generator(), range(first_try, first_try + tries)))
BeginFrame ==
    /\ pc = "loop"
    /\ frame <= frames_of(total_tries)
    /\ jobs' = <<>>
    /\ iterating' = TRUE
    /\ main_pulled' = 0
    /\ gen' = IdleGen
    /\ pc' = "dispatch"
    /\ UNCHANGED <<total_tries, n_jobs, objective, trials_file, trials, f_val,
                   current_best_loss, opt, frame, cb, results, notes, best_result,
                   interrupted>>
    /\ frame_lens' = Append(frame_lens, frame_len_of(frame, total_tries))
    /\ UNCHANGED <<completed, passed, removed, preloaded>>
    /\ UNCHANGED sidevars

\* Parallel.__exit__ and the backend's abort: the pool is shut down, its jobs
\* and the callbacks not yet run are dropped
PoolDown ==
    /\ jobs' = <<>>
    /\ iterating' = FALSE
    /\ main_pulled' = 0
    /\ gen' = IdleGen
    /\ cb' = IdleCb

\* range(frames + 1) is exhausted: the with blocks are left
ExitLoop ==
    /\ pc = "loop"
    /\ frame > frames_of(total_tries)
    /\ pc' = "save"
    /\ PoolDown
    /\ UNCHANGED <<total_tries, n_jobs, objective, trials_file, trials, f_val,
                   current_best_loss, opt, frame, results, notes, best_result,
                   interrupted>>
    /\ UNCHANGED histvars
    /\ UNCHANGED sidevars

(***************************************************************************)
(* run_optimizer_parallel: joblib's Parallel pulls (asked, i) pairs from   *)
(* zip(self.opt_generator(), range(first_try, first_try + tries)) one at a *)
(* time (batch size 1), under its dispatch lock: first pre_dispatch pairs  *)
(* from the controlling thread through an islice, then one pair from the   *)
(* completion callback of each finished task.  The lock is held exactly    *)
(* while the generator is being advanced (gen.owner # "none").             *)
(***************************************************************************)
PoolAlive == pc \in {"dispatch", "retrieve", "append", "log", "loop"}

FrameRunning == pc \in {"dispatch", "retrieve"}

\* the controlling thread's dispatch loop: the islice stops after
\* pre_dispatch items without touching the zip, otherwise the zip is advanced
MainDispatch ==
    /\ pc = "dispatch"
    /\ gen.owner = "none"
    /\ IF main_pulled = pre_dispatch
       THEN /\ pc' = "retrieve"
            /\ gen' = gen
       ELSE /\ pc' = pc
            /\ gen' = [IdleGen EXCEPT !.owner = "main"]
    /\ UNCHANGED <<total_tries, n_jobs, objective, trials_file, trials, f_val,
                   current_best_loss, opt, frame, jobs, iterating, main_pulled, cb,
                   results, notes, best_result, interrupted>>
    /\ UNCHANGED histvars
    /\ UNCHANGED sidevars

\* opt_generator: if self.f_val:
GenTest ==
    /\ PoolAlive
    /\ gen.owner # "none"
    /\ gen.pc = "test"
    /\ gen' = [gen EXCEPT !.pc = IF f_val # <<>> THEN "points" ELSE "ask"]
    /\ UNCHANGED <<pc, total_tries, n_jobs, objective, trials_file, trials, f_val,
                   current_best_loss, opt, frame, jobs, iterating, main_pulled, cb,
                   results, notes, best_result, interrupted>>
    /\ UNCHANGED histvars
    /\ UNCHANGED sidevars

\* opt_generator: [v['asked'] for v in self.f_val]
GenPoints ==
    /\ PoolAlive
    /\ gen.owner # "none"
    /\ gen.pc = "points"
    /\ gen' = [gen EXCEPT !.pc = "losses", !.points = Column(f_val, "asked")]
    /\ UNCHANGED <<pc, total_tries, n_jobs, objective, trials_file, trials, f_val,
                   current_best_loss, opt, frame, jobs, iterating, main_pulled, cb,
                   results, notes, best_result, interrupted>>
    /\ UNCHANGED histvars
    /\ UNCHANGED sidevars

\* opt_generator: [v['loss'] for v in self.f_val], then the flush statement
GenLosses ==
    /\ PoolAlive
    /\ gen.owner # "none"
    /\ gen.pc = "losses"
    /\ LET losses == Column(f_val, "loss")
       IN  /\ gen' = [gen EXCEPT !.pc = "clear", !.losses = losses]
           /\ opt' = flush_statement(opt, gen.points, losses)
           /\ passed' = [n |-> passed.n + Len(gen.points),
                         points |-> passed.points \cup Range(gen.points)]
    /\ UNCHANGED <<pc, total_tries, n_jobs, objective, trials_file, trials, f_val,
                   current_best_loss, frame, jobs, iterating, main_pulled, cb,
                   results, notes, best_result, interrupted, completed, removed, frame_lens,
                   preloaded>>
    /\ UNCHANGED sidevars

\* opt_generator: self.f_val = []
GenClear ==
    /\ PoolAlive
    /\ gen.owner # "none"
    /\ gen.pc = "clear"
    /\ f_val' = cleared(f_val)
    /\ removed' = removed \cup (Range(Column(f_val, "asked")) \ Range(Column(f_val', "asked")))
    /\ gen' = [gen EXCEPT !.pc = "ask"]
    /\ UNCHANGED <<pc, total_tries, n_jobs, objective, trials_file, trials,
                   current_best_loss, opt, frame, jobs, iterating, main_pulled, cb,
                   results, notes, best_result, interrupted, completed, passed, frame_lens,
                   preloaded>>
    /\ UNCHANGED sidevars

\* opt_generator: yield self.opt.ask(); zip then advances the range: a pair
\* is dispatched as a task, or the range is exhausted, the point is dropped
\* and dispatch_one_batch returns False (to the controlling thread: its
\* dispatch loop ends; to a callback: _original_iterator = None)
GenAsk ==
    /\ PoolAlive
    /\ gen.owner # "none"
    /\ gen.pc = "ask"
    /\ opt' = opt_ask(opt)
    /\ gen' = IdleGen
    /\ IF Len(jobs) < frame_len_of(frame, total_tries)
       THEN /\ jobs' = Append(jobs, [asked |-> opt'.asked,
                                     n |-> frame_start_of(frame) + Len(jobs),
                                     done |-> FALSE, loss |-> 0])
            /\ main_pulled' = IF gen.owner = "main" THEN main_pulled + 1 ELSE main_pulled
            /\ pc' = pc
            /\ iterating' = iterating
       ELSE /\ jobs' = jobs
            /\ main_pulled' = main_pulled
            /\ pc' = IF gen.owner = "main" THEN "retrieve" ELSE pc
            /\ iterating' = IF gen.owner = "cb" THEN FALSE ELSE iterating
    /\ cb' = IF gen.owner = "cb" THEN [cb EXCEPT !.pc = "backend"] ELSE cb
    /\ UNCHANGED <<total_tries, n_jobs, objective, trials_file, trials, f_val,
                   current_best_loss, frame, results, notes, best_result,
                   interrupted>>
    /\ UNCHANGED histvars
    /\ UNCHANGED sidevars

\* tasks are started in submission order by n_jobs workers
Eligible(i) == Cardinality({j \in 1..(i - 1) : ~jobs[j].done}) < n_jobs

\* A worker finishes parallel_objective for task i; the backend thread sets
\* the future's result and starts MultiCallback.__call__ with it
Complete(i) ==
    /\ FrameRunning
    /\ cb.pc = "idle"
    /\ ~jobs[i].done
    /\ Eligible(i)
    /\ \E loss \in LossVals :
          LET res == [loss |-> loss, asked |-> jobs[i].asked]
          IN  /\ jobs' = [jobs EXCEPT ![i].done = TRUE, ![i].loss = loss]
              /\ cb' = [pc |-> "joblib", res |-> <<res>>]
              /\ completed' = completed \cup {res}
    /\ UNCHANGED <<pc, total_tries, n_jobs, objective, trials_file, trials, f_val,
                   current_best_loss, opt, frame, iterating, main_pulled, gen,
                   results, notes, best_result, interrupted, passed, removed, frame_lens,
                   preloaded>>
    /\ UNCHANGED sidevars

CompleteTask == \E i \in DOMAIN jobs : Complete(i)

\* MultiCallback: first joblib's own callback, which takes the dispatch lock
\* and calls dispatch_next while _original_iterator is not None
CbJoblib ==
    /\ PoolAlive
    /\ cb.pc = "joblib"
    /\ gen.owner = "none"
    /\ IF iterating
       THEN /\ gen' = [IdleGen EXCEPT !.owner = "cb"]
            /\ cb' = [cb EXCEPT !.pc = "dispatching"]
       ELSE /\ gen' = gen
            /\ cb' = [cb EXCEPT !.pc = "backend"]
    /\ UNCHANGED <<pc, total_tries, n_jobs, objective, trials_file, trials, f_val,
                   current_best_loss, opt, frame, jobs, iterating, main_pulled,
                   results, notes, best_result, interrupted>>
    /\ UNCHANGED histvars
    /\ UNCHANGED sidevars

\* the backend's callback telling the optimizer the result itself
CbBackendTelling ==
    /\ PoolAlive
    /\ cb.pc = "backend"
    /\ f_val' = parallel_callback(f_val, cb.res)
    /\ opt' = opt_tell(opt, Column(cb.res, "asked"), Column(cb.res, "loss"))
    /\ cb' = IdleCb
    /\ UNCHANGED <<pc, total_tries, n_jobs, objective, trials_file, trials,
                   current_best_loss, frame, jobs, iterating, main_pulled, gen,
                   results, notes, best_result, interrupted>>
    /\ UNCHANGED histvars
    /\ UNCHANGED sidevars

\* MultiCallback: then CustomImmediateResultBackend.callback, which hands
\* result.result().copy() to parallel_callback
CbBackend ==
    /\ PoolAlive
    /\ cb.pc = "backend"
    /\ f_val' = parallel_callback(f_val, cb.res)
    /\ cb' = IdleCb
    /\ UNCHANGED <<pc, total_tries, n_jobs, objective, trials_file, trials,
                   current_best_loss, opt, frame, jobs, iterating, main_pulled, gen,
                   results, notes, best_result, interrupted>>
    /\ UNCHANGED histvars
    /\ UNCHANGED sidevars

\* Parallel.retrieve returns once the iterator is consumed and every job has
\* its result: the outputs in submission order
Retrieve ==
    /\ pc = "retrieve"
    /\ ~iterating
    /\ \A i \in DOMAIN jobs : jobs[i].done
    /\ results' = [i \in DOMAIN jobs |-> [loss |-> jobs[i].loss, asked |-> jobs[i].asked]]
    /\ pc' = "append"
    /\ UNCHANGED <<total_tries, n_jobs, objective, trials_file, trials, f_val,
                   current_best_loss, opt, frame, notes, best_result, interrupted>>
    /\ UNCHANGED poolvars
    /\ UNCHANGED histvars
    /\ UNCHANGED sidevars

\* start(): self.trials += f_val
AppendTrials ==
    /\ pc = "append"
    /\ trials' = append_trials(trials, results)
    /\ pc' = "log"
    /\ UNCHANGED <<total_tries, n_jobs, objective, trials_file, f_val,
                   current_best_loss, opt, frame, results, notes, best_result,
                   interrupted>>
    /\ UNCHANGED poolvars
    /\ UNCHANGED histvars
    /\ UNCHANGED sidevars

\* start(): self.log_results(f_val, frame_start, self.total_tries), and the
\* loop goes on to the next frame
LogResults ==
    /\ pc = "log"
    /\ LET r == log_results(results, frame_start_of(frame), current_best_loss)
       IN  /\ current_best_loss' = r.best
           /\ notes' = notes \o r.notes
    /\ frame' = frame + 1
    /\ pc' = "loop"
    /\ UNCHANGED <<total_tries, n_jobs, objective, trials_file, trials, f_val, opt,
                   results, best_result, interrupted>>
    /\ UNCHANGED poolvars
    /\ UNCHANGED histvars
    /\ UNCHANGED sidevars

\* except KeyboardInterrupt: raised in the controlling thread anywhere in
\* the try block; the with blocks are left and the pool is shut down
Interrupt ==
    /\ PoolAlive
    /\ interrupted' = TRUE
    /\ pc' = "save"
    /\ PoolDown
    /\ UNCHANGED <<total_tries, n_jobs, objective, trials_file, trials, f_val,
                   current_best_loss, opt, frame, results, notes, best_result>>
    /\ UNCHANGED histvars
    /\ UNCHANGED sidevars

\* start(): self.save_trials()
SaveTrials ==
    /\ pc = "save"
    /\ trials_file' = save_trials(trials, trials_file)
    /\ pc' = "report"
    /\ UNCHANGED <<total_tries, n_jobs, objective, trials, f_val, current_best_loss,
                   opt, frame, results, notes, best_result, interrupted>>
    /\ UNCHANGED poolvars
    /\ UNCHANGED histvars
    /\ saved' = trials
    /\ UNCHANGED worker

\* start(): self.log_trials_result(); results[0] of an empty list raises
\* IndexError, which nothing catches
LogTrialsResult ==
    /\ pc = "report"
    /\ IF trials = <<>>
       THEN /\ pc' = "crashed"
            /\ best_result' = best_result
       ELSE /\ pc' = "done"
            /\ best_result' = best_of(trials)
    /\ UNCHANGED <<total_tries, n_jobs, objective, trials_file, trials, f_val,
                   current_best_loss, opt, frame, results, notes, interrupted>>
    /\ UNCHANGED poolvars
    /\ UNCHANGED histvars
    /\ UNCHANGED sidevars

Next ==
    \/ Start
    \/ BeginFrame
    \/ ExitLoop
    \/ MainDispatch
    \/ GenTest
    \/ GenPoints
    \/ GenLosses
    \/ GenClear
    \/ GenAsk
    \/ CompleteTask
    \/ CbJoblib
    \/ CbBackend
    \/ Retrieve
    \/ AppendTrials
    \/ LogResults
    \/ Interrupt
    \/ SaveTrials
    \/ LogTrialsResult

Spec == Init /\ [][Next]_vars

(***************************************************************************)
(* The frame-level specifications: the same start(), with                  *)
(* run_optimizer_parallel taken as one step that returns the frame's       *)
(* results in submission order, so that runs of several frames of          *)
(* EVALS_FRAME evaluations are within reach.  The buffer and the flush are *)
(* those of Spec and are left alone here.                                  *)
(***************************************************************************)
\* largest total_tries of SpecPartition
MaxTotal == 250

\* total_tries of SpecFrames
FrameTries == {0, 1, 100, 101, 250}

\* losses of SpecFrames
FrameLossVals == {50, INITIAL_BEST_LOSS, MAX_LOSS}

\* An objective gives the loss of the evaluation with global index n: a
\* repeating pattern, with one evaluation set apart
loss_at(obj, n) == IF n = obj.dipAt THEN obj.dip ELSE obj.pat[(n % Len(obj.pat)) + 1]

Objectives ==
    [pat : [1..2 -> FrameLossVals], dipAt : {0, 99, 137}, dip : {30, 50}]

FlatObjective == [pat |-> <<50, 50>>, dipAt |-> 137, dip |-> 30]

FrameInit(tries, objectives, files) ==
    /\ pc = "start"
    /\ Constructed
    /\ total_tries \in tries
    /\ n_jobs \in CpuCounts
    /\ objective \in objectives
    /\ trials_file \in files

\* f_val = self.run_optimizer_parallel(parallel, frame_len, frame_start):
\* the i-th task of the frame evaluates the i-th point asked in the frame;
\* once the range is exhausted the zip is advanced once more by a callback,
\* and once more by the controlling thread unless its islice ran out first
RunFrame ==
    /\ pc = "loop"
    /\ frame <= frames_of(total_tries)
    /\ LET tries == frame_len_of(frame, total_tries)
           first_try == frame_start_of(frame)
       IN  /\ results' = [i \in 1..tries |->
                            [loss |-> loss_at(objective, first_try + i - 1),
                             asked |-> opt.asked + i]]
           /\ \E extra \in (IF tries < pre_dispatch THEN {2} ELSE {1, 2}) :
                 opt' = [opt EXCEPT !.asked = @ + tries + extra]
           /\ frame_lens' = Append(frame_lens, tries)
    /\ completed' = completed \cup Range(results')
    /\ pc' = "append"
    /\ UNCHANGED <<total_tries, n_jobs, objective, trials_file, trials, f_val,
                   current_best_loss, frame, notes, best_result, interrupted,
                   passed, removed, preloaded>>
    /\ UNCHANGED poolvars
    /\ UNCHANGED sidevars

FrameNext ==
    \/ Start
    \/ RunFrame
    \/ ExitLoop
    \/ AppendTrials
    \/ LogResults
    \/ Interrupt
    \/ SaveTrials
    \/ LogTrialsResult

SpecFrames == FrameInit(FrameTries, Objectives, PriorFiles) /\ [][FrameNext]_vars

SpecPartition == FrameInit(1..MaxTotal, {FlatObjective}, {NoFile}) /\ [][FrameNext]_vars

(***************************************************************************)
(* The store specification: the operations on self.trials and on the       *)
(* checkpoint file, called in any order on stores of up to MaxStore        *)
(* trials.  pc records the operations last applied: "saved" after          *)
(* save_trials, "loaded" after a load_previous_results that follows a      *)
(* save_trials, "reloaded" after one that follows such a load, "read"      *)
(* after any other load_previous_results.                                  *)
(***************************************************************************)
MaxStore == 2

StoreRecords ==
    {[loss |-> 40, asked |-> 1], [loss |-> 50, asked |-> 2], [loss |-> MAX_LOSS, asked |-> 3]}

StoreInit ==
    /\ pc = "store"
    /\ Constructed
    /\ total_tries = 0
    /\ n_jobs \in CpuCounts
    /\ objective = <<>>
    /\ trials_file \in PriorFiles

StoreOpen == pc \in {"store", "saved", "loaded", "reloaded", "read"}

\* self.trials += f_val
StoreAppend ==
    /\ StoreOpen
    /\ Len(trials) < MaxStore
    /\ \E r \in StoreRecords : trials' = trials \o <<r>>
    /\ pc' = "store"
    /\ UNCHANGED <<total_tries, n_jobs, objective, trials_file, f_val,
                   current_best_loss, opt, frame, results, notes, best_result,
                   interrupted>>
    /\ UNCHANGED poolvars
    /\ UNCHANGED histvars
    /\ UNCHANGED sidevars

\* self.save_trials()
StoreSave ==
    /\ StoreOpen
    /\ trials_file' = save_trials(trials, trials_file)
    /\ saved' = trials
    /\ pc' = "saved"
    /\ UNCHANGED <<total_tries, n_jobs, objective, trials, f_val, current_best_loss,
                   opt, frame, results, notes, best_result, interrupted, worker>>
    /\ UNCHANGED poolvars
    /\ UNCHANGED histvars

\* self.load_previous_results()
StoreLoad ==
    /\ StoreOpen
    /\ LET r == load_previous_results(trials, trials_file)
       IN  /\ trials' = r.trials
           /\ trials_file' = r.file
           /\ pc' = IF r.raised THEN "crashed"
                    ELSE IF pc = "saved" THEN "loaded"
                    ELSE IF pc = "loaded" THEN "reloaded"
                    ELSE "read"
    /\ UNCHANGED <<total_tries, n_jobs, objective, f_val, current_best_loss, opt,
                   frame, results, notes, best_result, interrupted>>
    /\ UNCHANGED poolvars
    /\ UNCHANGED histvars
    /\ UNCHANGED sidevars

\* Hyperopt.__init__ of the next run: self.trials = []
StoreNew ==
    /\ StoreOpen
    /\ trials' = <<>>
    /\ pc' = IF pc = "saved" THEN "saved" ELSE "store"
    /\ UNCHANGED <<total_tries, n_jobs, objective, trials_file, f_val,
                   current_best_loss, opt, frame, results, notes, best_result,
                   interrupted>>
    /\ UNCHANGED poolvars
    /\ UNCHANGED histvars
    /\ UNCHANGED sidevars

StoreNext ==
    \/ StoreAppend
    \/ StoreSave
    \/ StoreLoad
    \/ StoreNew

SpecStore == StoreInit /\ [][StoreNext]_vars

(***************************************************************************)
(* The worker specification: what one Hyperopt object does when a task     *)
(* (parallel_objective) runs on it, for every configuration of the         *)
(* search spaces and asked points of every length up to MaxPointLen.       *)
(* The bound method is pickled with every task, so each task runs on its   *)
(* own copy of the controlling process's object.  worker is                *)
(* [object, task]: the object as the controlling process holds it, and     *)
(* the copy the last task ran on with what that task did.                  *)
(***************************************************************************)
MaxPointLen == 5

\* an asked point of variant v holds 10 * v + i at position i
PointVariants == {1, 2}

TradeCounts == {0, 600}

\* the sub-spaces of the strategy's hyperopt class (custom_hyperopt)
indicator_space == <<"adx-value">>

sell_indicator_space == <<"sell-adx-value">>

roi_space == <<"roi_t1", "roi_p1">>

stoploss_space == <<"stoploss">>

SpaceConfigs ==
    {{}, {"buy"}, {"sell"}, {"roi"}, {"stoploss"}, {"buy", "sell"},
     {"roi", "stoploss"}, {"all"}}

\* has_space
has_space(config, space) == space \in config.spaces \/ "all" \in config.spaces

\* the roi dimensions put ahead of the sell dimensions
hyperopt_space_roi_first(config) ==
    [dims |-> (IF has_space(config, "buy") THEN indicator_space ELSE <<>>)
              \o (IF has_space(config, "roi") THEN roi_space ELSE <<>>)
              \o (IF has_space(config, "sell") THEN sell_indicator_space ELSE <<>>)
              \o (IF has_space(config, "stoploss") THEN stoploss_space ELSE <<>>),
     config |-> IF has_space(config, "sell")
                THEN [config EXCEPT !.use_sell_signal = TRUE]
                ELSE config]

\* hyperopt_space: the dimensions, and the configuration as it leaves it
hyperopt_space(config) ==
    [dims |-> (IF has_space(config, "buy") THEN indicator_space ELSE <<>>)
              \o (IF has_space(config, "sell") THEN sell_indicator_space ELSE <<>>)
              \o (IF has_space(config, "roi") THEN roi_space ELSE <<>>)
              \o (IF has_space(config, "stoploss") THEN stoploss_space ELSE <<>>),
     config |-> IF has_space(config, "sell")
                THEN [config EXCEPT !.use_sell_signal = TRUE]
                ELSE config]

\* {dim.name: value for dim, value in zip(dimensions, params)}: zip stops at
\* the shorter list, a later pair of the same name replaces an earlier one
zip_dict(dims, params) ==
    LET n == IF Len(dims) < Len(params) THEN Len(dims) ELSE Len(params)
        last_at(nm) == CHOOSE i \in 1..n :
                          dims[i] = nm /\ \A j \in (i + 1)..n : dims[j] # nm
    IN  [nm \in {dims[i] : i \in 1..n} |-> params[last_at(nm)]]

\* only a point shorter than the space refused
get_args_short_only(config, params) ==
    LET space == hyperopt_space(config)
    IN  IF Len(params) < Len(space.dims)
        THEN [raised |-> TRUE, args |-> <<>>, config |-> space.config]
        ELSE [raised |-> FALSE, args |-> zip_dict(space.dims, params),
              config |-> space.config]

\* get_args
get_args(config, params) ==
    LET space == hyperopt_space(config)
    IN  IF Len(params) # Len(space.dims)
        THEN [raised |-> TRUE, args |-> <<>>, config |-> space.config]
        ELSE [raised |-> FALSE, args |-> zip_dict(space.dims, params),
              config |-> space.config]

Unset == [by |-> "default", args |-> <<>>]

NewStrategy ==
    [minimal_roi |-> Unset, advise_buy |-> Unset, advise_sell |-> Unset,
     stoploss |-> Unset]

NoTask ==
    [ran |-> FALSE, asked |-> <<>>, raised |-> FALSE, args |-> <<>>, loss |-> 0,
     dots |-> 0, backtests |-> 0, calc_calls |-> 0, trade_count |-> 0]

\* the loss formula evaluated whatever the number of trades
backtest_loss_always_calculated(trade_count, calc_loss) ==
    [loss |-> calc_loss, calc_calls |-> 1]

\* loss = MAX_LOSS if trade_count == 0 else self.calculate_loss(...): the
\* loss, and the number of calls of calculate_loss made for it; calc_loss is
\* what calculate_loss returns for the backtest's profit and duration
backtest_loss(trade_count, calc_loss) ==
    IF trade_count = 0
    THEN [loss |-> MAX_LOSS, calc_calls |-> 0]
    ELSE [loss |-> calc_loss, calc_calls |-> 1]

\* generate_optimizer after get_args succeeded: the strategy is set up from
\* the parameters, the backtest is run and the loss computed
evaluate(obj, task, params, trade_count, calc_loss) ==
    LET c == obj.config
        roi == IF has_space(c, "roi")
               THEN [by |-> "generate_roi_table", args |-> task.asked]
               ELSE obj.strategy.minimal_roi
        buy == IF has_space(c, "buy")
               THEN [by |-> "buy_strategy_generator", args |-> task.asked]
               ELSE IF "populate_buy_trend" \in obj.caps
               THEN [by |-> "populate_buy_trend", args |-> <<>>]
               ELSE obj.strategy.advise_buy
        sell == IF has_space(c, "sell")
                THEN [by |-> "sell_strategy_generator", args |-> task.asked]
                ELSE IF "populate_sell_trend" \in obj.caps
                THEN [by |-> "populate_sell_trend", args |-> <<>>]
                ELSE obj.strategy.advise_sell
        stop == IF has_space(c, "stoploss")
                THEN [by |-> "params", args |-> <<params["stoploss"]>>]
                ELSE obj.strategy.stoploss
    IN  [object |-> [obj EXCEPT !.strategy =
                        [minimal_roi |-> roi, advise_buy |-> buy,
                         advise_sell |-> sell, stoploss |-> stop]],
         task |-> [task EXCEPT
                     !.args = params,
                     !.backtests = @ + 1,
                     !.trade_count = trade_count,
                     !.calc_calls = @ + backtest_loss(trade_count, calc_loss).calc_calls,
                     !.loss = backtest_loss(trade_count, calc_loss).loss]]

\* parallel_objective on a copy of the object: log_results_immediate prints
\* the progress marker, then generate_optimizer, whose first statement is
\* get_args
parallel_objective(obj, asked, trade_count, calc_loss) ==
    LET marked == [NoTask EXCEPT !.ran = TRUE, !.asked = asked, !.dots = @ + 1]
        got == get_args(obj.config, asked)
        named == [obj EXCEPT !.config = got.config]
    IN  IF got.raised
        THEN [object |-> named, task |-> [marked EXCEPT !.raised = TRUE]]
        ELSE evaluate(named, marked, got.args, trade_count, calc_loss)

AskedPoints ==
    {[i \in 1..n |-> 10 * v + i] : n \in 0..MaxPointLen, v \in PointVariants}

\* the outcomes of a backtest: the number of trades, and what the loss
\* formula gives for its total profit and mean trade duration
BacktestOutcomes == [trade_count : TradeCounts, calc_loss : LossVals]

WorkerInit ==
    /\ pc = "worker_new"
    /\ Constructed
    /\ total_tries = 0
    /\ n_jobs \in CpuCounts
    /\ objective = <<>>
    /\ trials_file = NoFile

\* Hyperopt.__init__ with a configuration and a hyperopt class
WorkerConstruct ==
    /\ pc = "worker_new"
    /\ \E spaces \in SpaceConfigs, flag \in BOOLEAN,
          caps \in SUBSET {"populate_buy_trend", "populate_sell_trend"} :
          LET obj == [config |-> [spaces |-> spaces, use_sell_signal |-> flag],
                      caps |-> caps, strategy |-> NewStrategy]
          IN  worker' = [object |-> obj, copy |-> obj, task |-> NoTask]
    /\ pc' = "worker_built"
    /\ UNCHANGED <<total_tries, n_jobs, objective, trials_file, trials, f_val,
                   current_best_loss, opt, frame, results, notes, best_result,
                   interrupted, saved>>
    /\ UNCHANGED poolvars
    /\ UNCHANGED histvars

\* start(): self.opt = self.get_optimizer(cpus), which calls hyperopt_space
\* before any task is sent to a worker
WorkerGetOptimizer ==
    /\ pc = "worker_built"
    /\ LET obj == [worker.object EXCEPT
                     !.config = hyperopt_space(worker.object.config).config]
       IN  worker' = [object |-> obj, copy |-> obj, task |-> NoTask]
    /\ pc' = "worker_ready"
    /\ UNCHANGED <<total_tries, n_jobs, objective, trials_file, trials, f_val,
                   current_best_loss, opt, frame, results, notes, best_result,
                   interrupted, saved>>
    /\ UNCHANGED poolvars
    /\ UNCHANGED histvars

\* a task: parallel_objective(asked, n) on a copy of the object, with the
\* backtest's outcome
WorkerTask ==
    /\ pc = "worker_ready"
    /\ \E asked \in AskedPoints, outcome \in BacktestOutcomes :
          LET r == parallel_objective(worker.object, asked, outcome.trade_count,
                                      outcome.calc_loss)
          IN  worker' = [object |-> worker.object, copy |-> r.object,
                         task |-> r.task]
    /\ UNCHANGED <<pc, total_tries, n_jobs, objective, trials_file, trials, f_val,
                   current_best_loss, opt, frame, results, notes, best_result,
                   interrupted, saved>>
    /\ UNCHANGED poolvars
    /\ UNCHANGED histvars

WorkerNext ==
    \/ WorkerConstruct
    \/ WorkerGetOptimizer
    \/ WorkerTask

SpecWorker == WorkerInit /\ [][WorkerNext]_vars

(***************************************************************************)
(* Properties                                                              *)
(***************************************************************************)
ToldPoints == {t[1] : t \in opt.told}

RECURSIVE SumSeq(_)
SumSeq(q) == IF q = <<>> THEN 0 ELSE Head(q) + SumSeq(Tail(q))

Finalized == pc \in {"report", "done", "crashed"}

\* what a later run would load from the checkpoint
PersistedTrials ==
    IF trials_file.exists /\ Len(trials_file.bytes) > 0
    THEN load(trials_file.bytes)
    ELSE <<>>

\* C1: every result that opt_generator removed from the pending buffer has
\* been received by the optimizer's tell.
C1_RemovedResultsWereTold == removed \subseteq ToldPoints

\* C2: the number of points passed to tell never exceeds the number of
\* points ask has returned, and every such point is one ask returned before;
\* this holds of what the optimizer received and of what the flush statement
\* was handed.
C2_ToldWithinAsked ==
    /\ opt.n_told <= opt.asked
    /\ ToldPoints \subseteq 1..opt.asked
    /\ passed.n <= opt.asked
    /\ passed.points \subseteq 1..opt.asked

\* C2 witness: a run in which three results were flushed while further
\* points were asked, and which was interrupted afterwards.
C2_Witness == passed.n >= 3 /\ opt.asked > passed.n /\ interrupted

\* C3: for total_tries >= 1 an uninterrupted run has (total_tries-1) div 100
\* + 1 frames, all of length 100 but the last, of length
\* (total_tries-1) mod 100 + 1; every frame length is in 1..100 and the
\* lengths sum to total_tries.
C3_FramePartition ==
    /\ \A i \in DOMAIN frame_lens : frame_lens[i] \in 1..100
    /\ SumSeq(frame_lens) <= total_tries
    /\ (pc = "save" /\ ~interrupted) =>
          /\ Len(frame_lens) = ((total_tries - 1) \div 100) + 1
          /\ \A i \in 1..(Len(frame_lens) - 1) : frame_lens[i] = 100
          /\ Last(frame_lens) = ((total_tries - 1) % 100) + 1
          /\ SumSeq(frame_lens) = total_tries

\* C3 witness: the run of 250 tries has ended with frames 100, 100, 50.
C3_Witness ==
    /\ pc = "save"
    /\ ~interrupted
    /\ total_tries = 250
    /\ frame_lens = <<100, 100, 50>>

\* C4: a run in which a KeyboardInterrupt was caught never ends with an
\* unhandled error.
C4_InterruptNeverCrashes == interrupted => pc # "crashed"

\* C5: once an interrupted run has saved its trials, every result whose
\* evaluation had completed is among the persisted trials.
C5_NoProgressDiscarded ==
    (interrupted /\ Finalized) => completed \subseteq Range(PersistedTrials)

\* C6: current_best_loss never increases; it changes exactly when a
\* notification is printed, to that notification's loss, which is strictly
\* smaller than the value before; the losses of successive notifications
\* are strictly decreasing.
C6_BestLossDecreases ==
    /\ [](/\ \A i \in DOMAIN notes : notes[i].loss < INITIAL_BEST_LOSS
          /\ \A i \in 1..(Len(notes) - 1) : notes[i + 1].loss < notes[i].loss
          /\ current_best_loss =
                IF notes = <<>> THEN INITIAL_BEST_LOSS ELSE Last(notes).loss)
    /\ [][/\ current_best_loss' <= current_best_loss
          /\ (notes' # notes) <=> (current_best_loss' < current_best_loss)]_vars

\* C6 witness: two notifications of different frames.
C6_Witness ==
    /\ Len(notes) >= 2
    /\ notes[1].current <= EVALS_FRAME
    /\ notes[2].current > EVALS_FRAME
    /\ current_best_loss = notes[2].loss

\* C7: the result reported at the end of the run is the first element, in
\* insertion order, of the trial store whose loss is the minimum of the
\* store.
C7_BestIsFirstMinimum ==
    pc = "done" =>
       \E k \in DOMAIN trials :
          /\ best_result = trials[k]
          /\ \A j \in DOMAIN trials : trials[j].loss >= trials[k].loss
          /\ \A j \in 1..(k - 1) : trials[j].loss > trials[k].loss

\* C7 witness: a full run of 250 evaluations after two preloaded trials
\* whose minimum is the evaluation of index 137 alone.
C7_Witness ==
    /\ pc = "done"
    /\ ~interrupted
    /\ Len(trials) = 252
    /\ best_result = trials[140]
    /\ \A j \in DOMAIN trials : j # 140 => trials[j].loss > best_result.loss

\* C7 witness of the tie: the minimum occurs more than once and the first
\* occurrence is not the first element.
C7_TieWitness ==
    /\ pc = "done"
    /\ \E k \in DOMAIN trials :
          /\ k > 1
          /\ best_result = trials[k]
          /\ \E j \in (k + 1)..Len(trials) : trials[j].loss = trials[k].loss

\* C8: a load_previous_results that follows the save_trials of a non-empty
\* store leaves the store equal to the saved one, element for element and in
\* order, and the checkpoint file removed; a second load_previous_results
\* changes neither.
C8_RoundTrip ==
    (pc \in {"loaded", "reloaded"} /\ saved # <<>>) =>
       /\ trials = saved
       /\ trials_file = NoFile

\* C8 witness: a store of two different trials was saved and loaded twice.
C8_Witness ==
    /\ pc = "reloaded"
    /\ Len(saved) = 2
    /\ saved[1] # saved[2]
    /\ trials = saved

\* C9: with the checkpoint file missing or of size zero,
\* load_previous_results raises nothing and changes neither the store nor
\* the file; save_trials of an empty store leaves the file as it is.
C9_MissingOrEmptyIsNoError ==
    [][/\ (StoreLoad /\ (~trials_file.exists \/ Len(trials_file.bytes) = 0)) =>
             /\ pc' # "crashed"
             /\ trials' = trials
             /\ trials_file' = trials_file
       /\ (StoreSave /\ trials = <<>>) => trials_file' = trials_file]_vars

\* C9 witness: an empty store was saved over a zero-size file and
\* load_previous_results then found that file.
C9_Witness ==
    /\ pc = "loaded"
    /\ saved = <<>>
    /\ trials = <<>>
    /\ trials_file = EmptyFile

\* the space the worker's get_args compares an asked point with
WorkerDims == hyperopt_space(worker.object.config).dims

TaskRan == pc = "worker_ready" /\ worker.task.ran

\* the mapping of a point of the length of the space: one entry per
\* dimension, each name with the value at its position
ArgsNamed ==
    /\ ~worker.task.raised
    /\ DOMAIN worker.task.args = Range(WorkerDims)
    /\ Cardinality(DOMAIN worker.task.args) = Len(WorkerDims)
    /\ \A i \in DOMAIN WorkerDims : worker.task.args[WorkerDims[i]] = worker.task.asked[i]

C10_NamedWitness ==
    /\ TaskRan
    /\ Len(WorkerDims) = 5
    /\ ~worker.task.raised
    /\ worker.task.args["roi_p1"] = 24

(***************************************************************************)
(* The search space                                                        *)
(***************************************************************************)
SubSpaceNames == {"buy", "sell", "roi", "stoploss"}

\* the dimensions a configuration of spaces enables, sub-space by sub-space
\* in the order buy, sell, roi, stoploss
EnabledDims(spaces) ==
    LET on(s) == s \in spaces \/ "all" \in spaces
    IN  (IF on("buy") THEN indicator_space ELSE <<>>)
        \o (IF on("sell") THEN sell_indicator_space ELSE <<>>)
        \o (IF on("roi") THEN roi_space ELSE <<>>)
        \o (IF on("stoploss") THEN stoploss_space ELSE <<>>)

WorkerBuilt == pc \in {"worker_built", "worker_ready"}

\* C11: has_space(s) is true exactly when s or 'all' is among the configured
\* spaces; hyperopt_space returns the dimensions of the enabled sub-spaces
\* concatenated in the order buy, sell, roi, stoploss, and returns the same
\* on every later call: on the configuration as an earlier call left it, in
\* the controlling process and in the copy a task ran on. With spaces =
\* ['roi'] the space has the two roi dimensions and has_space('buy') is false.
C11_SpaceIsEnabledSubspaces ==
    WorkerBuilt =>
       LET c == worker.object.config
           d == hyperopt_space(c).dims
       IN  /\ \A s \in SubSpaceNames :
                 has_space(c, s) <=> (s \in c.spaces \/ "all" \in c.spaces)
           /\ d = EnabledDims(c.spaces)
           /\ hyperopt_space(hyperopt_space(c).config).dims = d
           /\ hyperopt_space(worker.copy.config).dims = d
           /\ hyperopt_space(c).config.spaces = c.spaces
           /\ c.spaces = {"roi"} => (Len(d) = 2 /\ ~has_space(c, "buy"))

\* C11 witness: with spaces = ['roi'] the optimizer was built and a task
\* has named a point of two values after the two roi dimensions.
C11_Witness ==
    /\ TaskRan
    /\ worker.object.config.spaces = {"roi"}
    /\ ~worker.task.raised
    /\ DOMAIN worker.task.args = {"roi_t1", "roi_p1"}
    /\ ~has_space(worker.copy.config, "buy")

\* C11 witness of the order: with 'all' configured the five dimensions come
\* buy, sell, roi, stoploss.
C11_AllWitness ==
    /\ TaskRan
    /\ worker.object.config.spaces = {"all"}
    /\ WorkerDims = <<"adx-value", "sell-adx-value", "roi_t1", "roi_p1", "stoploss">>

\* C14: a task whose backtest made no trade returns the loss MAX_LOSS,
\* whatever the loss formula would give for its profit and duration, and
\* calculate_loss was not called for it.
C14_ZeroTradesIsMaxLoss ==
    (TaskRan /\ ~worker.task.raised /\ worker.task.trade_count = 0) =>
       /\ worker.task.backtests = 1
       /\ worker.task.loss = MAX_LOSS
       /\ worker.task.loss = 100000
       /\ worker.task.calc_calls = 0

\* C14 witness: a task on a worker searching the roi space ran its backtest,
\* which made no trade, and returned MAX_LOSS.
C14_Witness ==
    /\ TaskRan
    /\ ~worker.task.raised
    /\ worker.task.backtests = 1
    /\ worker.task.trade_count = 0
    /\ worker.task.loss = MAX_LOSS
    /\ worker.object.config.spaces = {"roi"}

\* C14 witness of the other branch: trades were made and the loss is the one
\* calculate_loss returned.
C14_TradesWitness ==
    /\ TaskRan
    /\ worker.task.trade_count = 600
    /\ worker.task.calc_calls = 1
    /\ worker.task.loss = 40

(***************************************************************************)
(* The frame in flight                                                     *)
(***************************************************************************)
\* the TrialResult of task i of the running frame
ResultOf(i) == [loss |-> jobs[i].loss, asked |-> jobs[i].asked]

\* the frame has been logged and its tasks are still at hand
FrameLogged == pc = "loop" /\ frame >= 1 /\ jobs # <<>>

CallbackPending(i) == cb.pc # "idle" /\ cb.res = <<ResultOf(i)>>

\* C13: a task that has not completed has no result in the pending buffer
\* and never had; a task that has completed has its callback under way, or
\* its one result has been appended: the result is in the buffer exactly
\* once, or the generator has cleared it. No other task has to complete for
\* that.
C13_OneResultPerCompletedTask ==
    PoolAlive =>
       \A i \in DOMAIN jobs :
          LET copies == {k \in DOMAIN f_val : f_val[k].asked = jobs[i].asked}
              times == Cardinality(copies)
                       + (IF jobs[i].asked \in removed THEN 1 ELSE 0)
          IN  /\ \A k \in copies : f_val[k] = ResultOf(i)
              /\ IF ~jobs[i].done THEN times = 0
                 ELSE IF CallbackPending(i) THEN times = 0
                 ELSE times = 1

\* C13 witness: the second task has completed and its result is in the
\* buffer while the first task is still running.
C13_Witness ==
    /\ FrameRunning
    /\ Len(jobs) >= 2
    /\ ~jobs[1].done
    /\ jobs[2].done
    /\ cb.pc = "idle"
    /\ f_val = <<ResultOf(2)>>

C16_AsksEqualTries == (pc = "save" /\ ~interrupted) => opt.asked = total_tries

\* C17: when the generator has built a flush, its points and its losses
\* have the same length and the i-th loss is the loss of the evaluation of
\* the i-th point; no result was handed to two flushes.
C17_FlushAligned ==
    /\ (gen.owner # "none" /\ gen.pc = "clear") =>
          /\ Len(gen.points) = Len(gen.losses)
          /\ \A i \in DOMAIN gen.points :
                /\ i \in DOMAIN gen.losses
                /\ [loss |-> gen.losses[i], asked |-> gen.points[i]] \in completed
    /\ passed.n = Cardinality(passed.points)

\* C18: when an ask is made from the completion callback of a task, the
\* result of every task that has completed, that task included, has been
\* handed to a flush.
C18_CompletedFlushedBeforeAsk ==
    (gen.owner = "cb" /\ gen.pc = "ask") =>
       \A i \in DOMAIN jobs : jobs[i].done => jobs[i].asked \in passed.points

\* the trials of the store that follow the preloaded ones
RunTrials == SubSeq(trials, Len(preloaded) + 1, Len(trials))

InRun == pc \in {"loop", "dispatch", "retrieve", "append", "log", "save", "report",
                 "done", "crashed"}

\* C19: the store begins with the trials loaded from the checkpoint,
\* unchanged; what follows are the results of the frames appended so far,
\* each the result of an evaluation of this run, whole frames only, in the
\* order in which their points were submitted; after an uninterrupted run
\* the store has total_tries more trials than were loaded; what is persisted
\* at finalization begins with the loaded trials.
C19_StoreIsPreloadedThenFrames ==
    InRun =>
       /\ Len(trials) >= Len(preloaded)
       /\ SubSeq(trials, 1, Len(preloaded)) = preloaded
       /\ \A i \in DOMAIN RunTrials : RunTrials[i] \in completed
       /\ \A i \in 1..(Len(RunTrials) - 1) : RunTrials[i].asked < RunTrials[i + 1].asked
       /\ pc \in {"dispatch", "retrieve", "append"} =>
             Len(RunTrials) = SumSeq(frame_lens) - Last(frame_lens)
       /\ pc \in {"log", "loop"} => Len(RunTrials) = SumSeq(frame_lens)
       /\ (pc \in {"log", "loop"} /\ jobs # <<>>) =>
             SubSeq(RunTrials, Len(RunTrials) - Len(jobs) + 1, Len(RunTrials))
                = [i \in DOMAIN jobs |-> ResultOf(i)]
       /\ (pc = "save" /\ ~interrupted) =>
             Len(trials) = Len(preloaded) + total_tries
       /\ Finalized =>
             /\ Len(PersistedTrials) >= Len(preloaded)
             /\ SubSeq(PersistedTrials, 1, Len(preloaded)) = preloaded

\* C19 witness: a run of two evaluations after two loaded trials has ended;
\* the second task completed first, and the store holds the loaded trials
\* and then the first and the second result.
C19_Witness ==
    /\ pc = "done"
    /\ ~interrupted
    /\ Len(preloaded) = 2
    /\ total_tries = 2
    /\ Len(f_val) = 2
    /\ trials = preloaded \o <<f_val[2], f_val[1]>>
    /\ trials[3].asked < trials[4].asked
    /\ PersistedTrials = trials

\* C20: every result the generator's clear removed from the pending buffer
\* was among the points of a flush.
C20_NoResultLost == removed \subseteq passed.points

(***************************************************************************)
(* The best loss of the run                                                *)
(***************************************************************************)
MinOf(S) == CHOOSE x \in S : \A y \in S : x <= y

\* the trials of the frames log_results has gone through: frame counts them
LoggedTrials == SubSeq(RunTrials, 1, SumSeq(SubSeq(frame_lens, 1, frame)))

C21_SentinelWitness ==
    /\ pc = "done"
    /\ ~interrupted
    /\ total_tries = 101
    /\ preloaded = <<>>
    /\ best_result.loss = MAX_LOSS
    /\ notes = <<>>
    /\ current_best_loss = 100

====
